---------------------------- MODULE Spec2Model ----------------------------
(***************************************************************************)
(* A model of PC-Cleaner's main.py: the permission-resilient recursive walk *)
(* (safe_iter_files), the bounded top-N selection (list_highest_files, via  *)
(* heapq.nlargest), the total (calc_dir_size) and the driver (main).        *)
(*                                                                          *)
(* One run of main is the sequence                                          *)
(*   start -> list (walk 1, feeding nlargest) -> report -> calc (walk 2,    *)
(*   feeding sum) -> done,                                                  *)
(* with the exits "exit1" (root does not exist) and "crash" (an exception   *)
(* that nothing in main catches).  The file system is a small tree whose    *)
(* per-node attributes (size, permission, OS errors) are drawn in Init;     *)
(* the order in which a directory's children are visited is chosen at each  *)
(* step, and a file may disappear between the moment the walk yields it and *)
(* a later stat().                                                          *)
(*                                                                          *)
(* Spec is one run on a tree that may lose files while it is scanned.       *)
(* SpecTwice is two runs in a row on a tree that nothing modifies, the      *)
(* first run's report kept for comparison with the second's.                *)
(***************************************************************************)
EXTENDS Integers, Sequences, FiniteSets

\* ---------------------------------------------------------------- bounds
\* File sizes range over 1..MaxSize.
MaxSize == 2
\* --limit ranges over -1..MaxLimit (argparse accepts any integer).
MaxLimit == 2
\* At most MaxFaults faults (an unreadable path, a path the OS raises on) in
\* the tree.
MaxFaults == 1

\* ------------------------------------------------------- the directory tree
\* The tree the scan is run on: a root with two subdirectories, one holding
\* two files and the other one file.
Dirs == {"root", "dA", "dB"}
Files == {"f1", "f2", "f3"}
Nodes == Dirs \cup Files

\* What Path.iterdir() lists for a directory (in no particular order).
children(d) ==
    CASE d = "root" -> {"dA", "dB"}
      [] d = "dA"   -> {"f1", "f2"}
      [] d = "dB"   -> {"f3"}
      [] OTHER      -> {}

\* The directory an entry is listed in.
parent(n) ==
    CASE n \in {"dA", "dB"} -> "root"
      [] n \in {"f1", "f2"} -> "dA"
      [] n = "f3"           -> "dB"

\* The directories on the way from the root down to n (n excluded).
ancestors(n) ==
    CASE n = "root"          -> {}
      [] n \in {"dA", "dB"} -> {"root"}
      [] OTHER               -> {parent(n), "root"}

Limits == (0 - 1)..MaxLimit
Sizes == 1..MaxSize

\* What has_read_access finds for a path:
\*   "r_ok"    os.access(path, R_OK) is true
\*   "no_dacl" os.access fails, pywin32 is there (HAS_WIN32) and the path's
\*             security descriptor has no DACL
\*   "denied"  os.access fails and pywin32 is missing, or the descriptor has
\*             a DACL, or the query raises
AccessKinds == {"r_ok", "no_dacl", "denied"}
\* What the OS does when the path itself is touched:
\*   "ok"       nothing
\*   "listerr"  listing the directory raises OSError (iterdir)
\*   "staterr"  is_dir()/is_file() on the entry raises OSError
OsErrKinds == {"ok", "listerr", "staterr"}

VARIABLES
    size,        \* file -> st_size
    access,      \* node -> AccessKinds
    oserr,       \* node -> OsErrKinds
    limit,       \* args.limit
    exists,      \* args.path.exists()
    gone,        \* files removed since the run began
    pc,          \* where main is
    walk,        \* which safe_iter_files generator is live: 0 (none), 1, 2
    stack,       \* the live generator's frames (directory, entries still to
                 \* visit), innermost last
    heap,        \* nlargest's result list of (k, order, elem)
    order,       \* nlargest's order counter
    files,       \* what list_highest_files returned
    idx,         \* main's position in the report loop
    total,       \* the running sum of calc_dir_size
    log,         \* what main logged: top lines, total line, errors
    yields,      \* walk -> file -> times yielded
    warns,       \* walk -> node -> warnings logged by that walk naming it
    examined,    \* walk -> entries the walk's loop body was entered for
    listed,      \* walk -> dir -> times iterdir() listed it
    statfail,    \* files whose stat() failed in calc_dir_size
    scans,       \* how many times the program is run on the tree: 1 or 2
    run,         \* 1: first scan, 2: second scan of the same tree
    prev         \* the first scan's result, once a second one has begun

config == <<size, access, oserr, limit, exists, scans>>
trace == <<yields, warns, examined, listed, statfail>>
vars == <<size, access, oserr, limit, exists, scans, gone, pc, walk,
          stack, heap, order, files, idx, total, log, yields, warns,
          examined, listed, statfail, run, prev>>


\* ------------------------------------------------------------ pure helpers
Min(a, b) == IF a <= b THEN a ELSE b

RECURSIVE SumOver(_, _)
\* sum(g[x] for x in S)
SumOver(S, g) ==
    IF S = {} THEN 0
    ELSE LET x == CHOOSE y \in S : TRUE IN g[x] + SumOver(S \ {x}, g)

Zero(S) == [x \in S |-> 0]
Pop(st) == SubSeq(st, 1, Len(st) - 1)
Top(st) == st[Len(st)]
Range(s) == {s[i] : i \in 1..Len(s)}

\* has_read_access(path): os.access, else (with pywin32) "no DACL" counts as
\* readable; a failing security query and the fall-through give False.
has_read_access(n) ==
    IF access[n] = "r_ok" THEN TRUE
    ELSE IF access[n] = "no_dacl" THEN TRUE
    ELSE FALSE

\* Path.is_dir() / Path.is_file() of an entry: a removed entry is neither.
is_dir(n)  == n \in Dirs
is_file(n) == n \in Files /\ n \notin gone

\* Variant of Entry that yields a file without probing it.
EntryNoAccessCheck(c) ==
    IF oserr[c] = "staterr" THEN "raise"
    ELSE IF is_dir(c) THEN "recurse"
    ELSE IF is_file(c) THEN "yield"
    ELSE "skip"

\* The body of the for loop for one entry: what the try block does with it.
\*   "raise"    is_dir()/is_file() raised OSError (caught at line 67)
\*   "recurse"  yield from safe_iter_files(entry)
\*   "yield"    yield entry
\*   "skip"     neither branch taken
Entry(c) ==
    IF oserr[c] = "staterr" THEN "raise"
    ELSE IF is_dir(c) THEN "recurse"
    ELSE IF is_file(c) /\ has_read_access(c) THEN "yield"
    ELSE "skip"

\* End of a for loop: a frame with nothing left to visit returns to the
\* frame that was delegating to it (yield from), which resumes its own loop.
RECURSIVE Settle(_)
Settle(st) ==
    IF st # <<>> /\ Top(st).rest = {}
    THEN Settle(Pop(st))
    ELSE st

\* Variant of LeaveDirectory in which the failure of one directory ends the
\* whole walk (as it would if the error propagated to the caller).
AbortWalk(st) == <<>>

\* A generator frame that returns early (line 60) or whose outer except
\* clause ran (line 70): only that frame ends.
LeaveDirectory(st) == Settle(Pop(st))

\* Variant of AfterEntryError in which an entry's error ends the directory's
\* loop (as it would with the try around the for instead of inside it).
DropSiblings(st) == Settle(Pop(st))

\* After the inner except clause (line 68) the for loop goes on with the
\* entries that are left.
AfterEntryError(st) == Settle(st)

\* After an entry that was yielded or passed over the loop goes on.
NextSibling(st) == Settle(st)

\* ---- heapq.nlargest(limit, files, key=stat().st_size), limit > 0
\* The heap's least element: least key, then least order.
HeapMin(h) ==
    CHOOSE m \in h : \A e \in h :
        m.k < e.k \/ (m.k = e.k /\ m.order <= e.order)

\* Variant of NLargestStep that never replaces an element of a full list.
NLargestKeepFirst(h, ord, k, elem) ==
    IF Cardinality(h) < limit
    THEN [heap |-> h \cup {[k |-> k, order |-> 0 - Cardinality(h), elem |-> elem]},
          order |-> 0 - limit]
    ELSE [heap |-> h, order |-> ord]

\* One element taken from the iterator, its key k already computed: the
\* first `limit` elements fill the list with orders 0, -1, ...; a later one
\* replaces the least element only when its key is strictly larger (for
\* limit = 1 this is max(), which keeps the first of several maxima).
NLargestStep(h, ord, k, elem) ==
    IF Cardinality(h) < limit
    THEN [heap |-> h \cup {[k |-> k, order |-> 0 - Cardinality(h), elem |-> elem]},
          order |-> 0 - limit]
    ELSE IF HeapMin(h).k < k
         THEN [heap |-> (h \ {HeapMin(h)})
                          \cup {[k |-> k, order |-> ord, elem |-> elem]},
               order |-> ord - 1]
         ELSE [heap |-> h, order |-> ord]

RECURSIVE AscendingElems(_)
\* Variant of NLargestResult that sorts without reverse=True.
AscendingElems(h) ==
    IF h = {} THEN <<>>
    ELSE <<HeapMin(h).elem>> \o AscendingElems(h \ {HeapMin(h)})

\* result.sort(reverse=True); return [elem for (k, order, elem) in result]
RECURSIVE NLargestResult(_)
NLargestResult(h) ==
    IF h = {} THEN <<>>
    ELSE NLargestResult(h \ {HeapMin(h)}) \o <<HeapMin(h).elem>>

\* What main has logged: line 108 (notfound), line 113 (empty), one entry per
\* line 118 (file and the size given to format_size), the files of line 120
\* (sizeErr), line 123 (totalLogged, total) and line 125 (totalErr).
NoLog == [notfound |-> FALSE, empty |-> FALSE, lines |-> <<>>,
          sizeErr |-> {}, totalLogged |-> FALSE, total |-> 0,
          totalErr |-> FALSE]

\* The process's exit status once main has ended.
ExitCode == IF pc = "done" THEN 0 ELSE 1

\* ------------------------------------------------------------------- Init
\* The paths os.access refuses although they have no DACL.  Such a path is
\* readable like any other, so one directory and one file of the kind are
\* enough to take has_read_access through that branch.
NoDaclPaths == {"dA", "f3"}

\* The faults a tree may have: a path that fails os.access (with or without
\* a DACL), a directory whose listing raises, an entry whose is_dir() or
\* is_file() raises.  The root is never is_dir()-tested and a file is never
\* listed.
FaultPoints ==
    {<<n, "denied">> : n \in Nodes}
        \cup {<<n, "no_dacl">> : n \in NoDaclPaths}
        \cup {<<d, "listerr">> : d \in Dirs}
        \cup {<<n, "staterr">> : n \in Nodes \ {"root"}}

RECURSIVE UpTo(_, _)
\* The subsets of S with at most k elements.
UpTo(S, k) ==
    IF k = 0 THEN {{}}
    ELSE LET P == UpTo(S, k - 1) IN P \cup {A \cup {x} : A \in P, x \in S}

\* A set of faults gives each path at most one access state and one error.
Consistent(F) ==
    \A n \in Nodes :
        /\ ~(<<n, "no_dacl">> \in F /\ <<n, "denied">> \in F)
        /\ ~(<<n, "listerr">> \in F /\ <<n, "staterr">> \in F)

Fresh ==
    /\ pc = "start"
    /\ walk = 0
    /\ stack = <<>>
    /\ heap = {}
    /\ order = 0
    /\ files = <<>>
    /\ idx = 0
    /\ total = 0
    /\ log = NoLog
    /\ yields = [w \in 1..2 |-> Zero(Files)]
    /\ warns = [w \in 1..2 |-> Zero(Nodes)]
    /\ examined = [w \in 1..2 |-> {}]
    /\ listed = [w \in 1..2 |-> Zero(Dirs)]
    /\ statfail = {}

Tree ==
    /\ size \in [Files -> Sizes]
    /\ \E F \in {G \in UpTo(FaultPoints, MaxFaults) : Consistent(G)} :
        /\ access = [n \in Nodes |->
                        IF <<n, "no_dacl">> \in F THEN "no_dacl"
                        ELSE IF <<n, "denied">> \in F THEN "denied"
                        ELSE "r_ok"]
        /\ oserr = [n \in Nodes |->
                        IF <<n, "listerr">> \in F THEN "listerr"
                        ELSE IF <<n, "staterr">> \in F THEN "staterr"
                        ELSE "ok"]
    /\ limit \in Limits
    /\ exists \in BOOLEAN
    /\ gone = {}
    /\ run = 1
    /\ prev = [top |-> {}, sizes |-> <<>>, total |-> 0]
    /\ Fresh

\* One run of the program, on a tree that other processes may change.
Init == Tree /\ scans = 1

\* Two runs of the program, one after the other, on a tree nothing changes.
InitTwice == Tree /\ scans = 2

\* ---------------------------------------------------------------- actions
\* safe_iter_files(d) starts to run over the frames st (lines 57-61): the
\* access probe, then iterdir().  The frames afterwards, and whether a
\* warning naming d was logged and whether d was listed.
Enter(st, d) ==
    LET here == st \o <<[dir |-> d, rest |-> {}]>> IN
    IF ~has_read_access(d)
    THEN [stack |-> LeaveDirectory(here), warned |-> 1, listed |-> 0]
    ELSE IF oserr[d] = "listerr"
    THEN [stack |-> LeaveDirectory(here), warned |-> 1, listed |-> 1]
    ELSE [stack |-> Settle(st \o <<[dir |-> d, rest |-> children(d)]>>),
          warned |-> 0, listed |-> 1]

\* Walk w begins: the consumer's first next() runs the generator on the root.
BeginWalk(w) ==
    /\ walk' = w
    /\ stack' = Enter(<<>>, "root").stack
    /\ warns' = [warns EXCEPT ![w]["root"] = @ + Enter(<<>>, "root").warned]
    /\ listed' = [listed EXCEPT ![w]["root"] = @ + Enter(<<>>, "root").listed]

\* calc_dir_size(args.path) is entered (line 122): sum() over a new generator.
BeginCalc ==
    /\ pc' = "calc"
    /\ total' = 0
    /\ BeginWalk(2)

\* main, lines 106-113: the root-exists check, then list_highest_files.
\* nlargest with limit <= 0 zips an empty range with the generator and
\* returns [] without ever advancing it.
Start ==
    /\ pc = "start"
    /\ IF ~exists
       THEN /\ pc' = "exit1"
            /\ log' = [log EXCEPT !.notfound = TRUE]
            /\ UNCHANGED <<walk, stack, total, warns, listed>>
       ELSE IF limit <= 0
       THEN /\ log' = [log EXCEPT !.empty = TRUE]
            /\ BeginCalc
       ELSE /\ pc' = "list"
            /\ BeginWalk(1)
            /\ UNCHANGED <<log, total>>
    /\ UNCHANGED <<config, gone, heap, order, files, idx, yields, examined,
                   statfail, run, prev>>

\* The frames once entry c has been taken from the innermost iterdir().
Taken(c) == [stack EXCEPT ![Len(stack)].rest = @ \ {c}]

\* safe_iter_files, lines 61-68, for an entry that is not yielded: it raises,
\* is a directory to recurse into, or is passed over.
WalkVisit ==
    /\ pc \in {"list", "calc"}
    /\ stack # <<>>
    /\ \E c \in Top(stack).rest :
        /\ Entry(c) # "yield"
        /\ examined' = [examined EXCEPT ![walk] = @ \cup {c}]
        /\ IF Entry(c) = "raise"
           THEN /\ warns' = [warns EXCEPT ![walk][c] = @ + 1]
                /\ stack' = AfterEntryError(Taken(c))
                /\ UNCHANGED listed
           ELSE IF Entry(c) = "recurse"
           THEN /\ stack' = Enter(Taken(c), c).stack
                /\ warns' = [warns EXCEPT ![walk][c] = @ + Enter(Taken(c), c).warned]
                /\ listed' = [listed EXCEPT ![walk][c] = @ + Enter(Taken(c), c).listed]
           ELSE /\ stack' = NextSibling(Taken(c))
                /\ UNCHANGED <<warns, listed>>
    /\ UNCHANGED <<config, gone, pc, walk, heap, order, files, idx, total, log,
                   yields, statfail, run, prev>>

\* Whether a yielded file may have been removed by the time it is stat()ed:
\* it may, except where two scans of an unmodified tree are compared.
MayVanish == IF scans = 1 THEN BOOLEAN ELSE {FALSE}

\* A file yielded to nlargest (line 79): key(elem) is elem.stat().st_size.
\* A stat() that raises is caught nowhere: not in nlargest, not in
\* list_highest_files, not in main (line 111 is outside every try).
ListYield ==
    /\ pc = "list"
    /\ stack # <<>>
    /\ \E c \in Top(stack).rest, vanished \in MayVanish :
        /\ Entry(c) = "yield"
        /\ examined' = [examined EXCEPT ![walk] = @ \cup {c}]
        /\ yields' = [yields EXCEPT ![walk][c] = @ + 1]
        /\ IF vanished
           THEN /\ gone' = gone \cup {c}
                /\ pc' = "crash"
                /\ walk' = 0
                /\ stack' = <<>>
                /\ UNCHANGED <<heap, order>>
           ELSE /\ heap' = NLargestStep(heap, order, size[c], c).heap
                /\ order' = NLargestStep(heap, order, size[c], c).order
                /\ stack' = NextSibling(Taken(c))
                /\ UNCHANGED <<gone, pc, walk>>
    /\ UNCHANGED <<config, files, idx, total, log, warns, listed, statfail,
                   run, prev>>

\* nlargest's iterator is exhausted: sort, return; main lines 112-115.
ListReturn ==
    /\ pc = "list"
    /\ stack = <<>>
    /\ files' = NLargestResult(heap)
    /\ IF heap = {}
       THEN /\ log' = [log EXCEPT !.empty = TRUE]
            /\ BeginCalc
            /\ UNCHANGED idx
       ELSE /\ pc' = "report"
            /\ idx' = 1
            /\ walk' = 0
            /\ UNCHANGED <<stack, total, log, warns, listed>>
    /\ UNCHANGED <<config, gone, heap, order, yields, examined, statfail,
                   run, prev>>

\* main, lines 116-120: one iteration of the report loop; after the last
\* one, line 122.
ReportFile ==
    /\ pc = "report"
    /\ idx <= Len(files)
    /\ \E vanished \in MayVanish :
        LET f == files[idx] IN
        /\ IF f \in gone \/ vanished
           THEN /\ gone' = gone \cup {f}
                /\ log' = [log EXCEPT !.sizeErr = @ \cup {f}]
           ELSE /\ log' = [log EXCEPT !.lines = Append(@, <<f, size[f]>>)]
                /\ UNCHANGED gone
    /\ idx' = idx + 1
    /\ IF idx = Len(files)
       THEN BeginCalc
       ELSE UNCHANGED <<pc, walk, stack, total, warns, listed>>
    /\ UNCHANGED <<config, heap, order, files, yields, examined, statfail,
                   run, prev>>

\* A file yielded to sum() (line 93).  A stat() that raises ends
\* calc_dir_size; main catches it (line 124) and logs an error.
CalcYield ==
    /\ pc = "calc"
    /\ stack # <<>>
    /\ \E c \in Top(stack).rest, vanished \in MayVanish :
        /\ Entry(c) = "yield"
        /\ examined' = [examined EXCEPT ![walk] = @ \cup {c}]
        /\ yields' = [yields EXCEPT ![walk][c] = @ + 1]
        /\ IF vanished
           THEN /\ gone' = gone \cup {c}
                /\ statfail' = statfail \cup {c}
                /\ log' = [log EXCEPT !.totalErr = TRUE]
                /\ pc' = "done"
                /\ walk' = 0
                /\ stack' = <<>>
                /\ UNCHANGED total
           ELSE /\ total' = total + size[c]
                /\ stack' = NextSibling(Taken(c))
                /\ UNCHANGED <<gone, statfail, log, pc, walk>>
    /\ UNCHANGED <<config, heap, order, files, idx, warns, listed, run, prev>>

\* sum() returns; main line 123 logs the total.
CalcReturn ==
    /\ pc = "calc"
    /\ stack = <<>>
    /\ log' = [log EXCEPT !.totalLogged = TRUE, !.total = total]
    /\ pc' = "done"
    /\ walk' = 0
    /\ UNCHANGED <<config, gone, stack, heap, order, files, idx, total, trace,
                   run, prev>>

\* The sizes of a list of files, in order.
SizesOf(fs) == [i \in 1..Len(fs) |-> size[fs[i]]]

\* The program is run a second time on the same, unmodified tree with the
\* same arguments; the first scan's report is kept for comparison.
Rescan ==
    /\ pc = "done"
    /\ run < scans
    /\ run' = 2
    /\ prev' = [top |-> Range(files), sizes |-> SizesOf(files), total |-> log.total]
    /\ pc' = "start"
    /\ walk' = 0
    /\ stack' = <<>>
    /\ heap' = {}
    /\ order' = 0
    /\ files' = <<>>
    /\ idx' = 0
    /\ total' = 0
    /\ log' = NoLog
    /\ yields' = [w \in 1..2 |-> Zero(Files)]
    /\ warns' = [w \in 1..2 |-> Zero(Nodes)]
    /\ examined' = [w \in 1..2 |-> {}]
    /\ listed' = [w \in 1..2 |-> Zero(Dirs)]
    /\ statfail' = {}
    /\ UNCHANGED <<config, gone>>

Next ==
    \/ Start
    \/ WalkVisit
    \/ ListYield
    \/ ListReturn
    \/ ReportFile
    \/ CalcYield
    \/ CalcReturn

NextTwice ==
    \/ Next
    \/ Rescan

Spec == Init /\ [][Next]_vars

SpecTwice == InitTwice /\ [][NextTwice]_vars

\* ------------------------------------------------------- derived notions
\* The files walk w has yielded so far, counted with repetition.
Yielded(w) == SumOver(Files, yields[w])
YieldedSet(w) == {f \in Files : yields[w][f] > 0}

\* list_highest_files has returned in this run with a positive limit.
ListReturned == limit > 0 /\ pc \in {"report", "calc", "done"}

\* Walk w ran until its generator was exhausted.
Exhausted(w) ==
    IF w = 1 THEN ListReturned ELSE pc = "done" /\ ~log.totalErr

\* A path that Python can examine and read.
Healthy(n) == has_read_access(n) /\ oserr[n] = "ok"

\* A file that is still there, is readable, and whose directories up to the
\* root are all readable and listable.
Reachable(f) ==
    /\ f \notin gone
    /\ Healthy(f)
    /\ \A a \in ancestors(f) : Healthy(a)

\* A file that fails the access probe or lies below a directory that does.
Unreadable(f) ==
    \/ ~has_read_access(f)
    \/ \E a \in ancestors(f) : ~has_read_access(a)

\* A subdirectory that is permission-denied: it fails the probe or its
\* listing raises.
Denied(d) == d \in Dirs \ {"root"} /\ (~has_read_access(d) \/ oserr[d] = "listerr")

\* ----------------------------------------------------------------- claims

\* C1: once list_highest_files(T, L) has returned for L > 0, its list has
\* exactly min(L, number of files the walk yielded) elements, holds no file
\* twice and only files the walk yielded, and is in non-increasing order of
\* size.
C1_TopListShape ==
    ListReturned =>
        /\ Len(files) = Min(limit, Yielded(1))
        /\ Cardinality(Range(files)) = Len(files)
        /\ Range(files) \subseteq YieldedSet(1)
        /\ \A i \in 1..Len(files) - 1 : size[files[i]] >= size[files[i + 1]]

\* C1 witness: three files were yielded, the limit is two, and the list
\* returned holds two files of different sizes.
C1_Witness ==
    /\ pc = "report"
    /\ limit = 2
    /\ Yielded(1) = 3
    /\ Len(files) = 2
    /\ size[files[1]] > size[files[2]]

\* C2: the total calc_dir_size reports is the sum of the sizes of exactly the
\* files its walk yielded, each once; a file that fails has_read_access, or
\* lies below a directory that fails it, is never yielded by either walk and
\* is never in the top-N list.
C2_TotalIsSumOfYielded ==
    /\ \A f \in Files : Unreadable(f) =>
          /\ yields[1][f] = 0
          /\ yields[2][f] = 0
          /\ f \notin Range(files)
    /\ \A f \in Files : yields[2][f] <= 1
    /\ pc = "calc" => total = SumOver(YieldedSet(2), size)
    /\ log.totalLogged => log.total = SumOver(YieldedSet(2), size)

\* C2 witness: a total was reported for a tree in which one file is not
\* readable and another was counted.
C2_Witness ==
    /\ pc = "done"
    /\ log.totalLogged
    /\ ~has_read_access("f1")
    /\ log.total = size["f2"] + size["f3"]

\* C3: whatever the order of traversal, a walk that ran to its end has
\* yielded every reachable file, so a denied subdirectory hides nothing of
\* its siblings: such a file is counted in the total, and is in the top-L
\* list whenever the list has room for every yielded file.
C3_SiblingsSurvive ==
    /\ \A w \in 1..2 : Exhausted(w) =>
          \A f \in Files : Reachable(f) => yields[w][f] = 1
    /\ (ListReturned /\ Yielded(1) <= limit) =>
          \A f \in Files : Reachable(f) => f \in Range(files)
    /\ log.totalLogged =>
          log.total >= SumOver({f \in Files : Reachable(f)}, size)

\* C3 witness: dA was denied (one warning in each walk) and f3, in its
\* sibling dB, is in the list and in the total.
C3_Witness ==
    /\ pc = "done"
    /\ Denied("dA")
    /\ warns[2]["dA"] = 1
    /\ files = <<"f3">>
    /\ log.totalLogged
    /\ log.total = size["f3"]

\* C4: on an existing root no file-system error ends the process: main
\* always reaches its end.
C4_NoFsErrorIsFatal == exists => pc # "crash"

\* C5: when a yielded file's size cannot be read while the total is being
\* computed, the total of the other yielded files is still reported.
C5_LateSizeErrorCountsZero ==
    (pc = "done" /\ statfail # {}) =>
        /\ log.totalLogged
        /\ log.total = SumOver(YieldedSet(2) \ statfail, size)

\* C6: with a limit <= 0 the run attempts no traversal and does not end
\* with exit status 0.
C6_NonPositiveLimitRejected ==
    limit <= 0 =>
        /\ walk = 0
        /\ \A w \in 1..2, d \in Dirs : listed[w][d] = 0
        /\ pc \in {"done", "exit1", "crash"} => ExitCode # 0

\* C7: in one run every directory is listed at most once, the top-N list
\* and the total coming from the same traversal.
C7_SinglePass ==
    \A d \in Dirs : listed[1][d] + listed[2][d] <= 1

\* C8: at the end of a run with a positive limit that reported its total,
\* over a tree with a permission-denied subdirectory, exactly one warning has
\* been logged for that subdirectory.
C8_OneWarningPerDeniedDir ==
    (pc = "done" /\ limit > 0 /\ log.totalLogged) =>
        \A d \in Dirs : Denied(d) => warns[1][d] + warns[2][d] = 1

\* C9 as stated: the second scan of the unmodified tree reports the same
\* top-L set and the same total as the first, whatever order each took.
C9_SameTopSet ==
    (run = 2 /\ pc = "done") =>
        /\ Range(files) = prev.top
        /\ log.total = prev.total

\* No file left out of the list has the size of a file in the list.
NoTieAtCut ==
    \A f \in Range(files), g \in YieldedSet(1) \ Range(files) : size[f] # size[g]

\* C9 amended: the second scan reports the same total and a top-L list with
\* the same sizes in the same order; the two top-L sets are equal whenever
\* no file left out of the list has the size of a file in it.
C9_SameUpToTies ==
    (run = 2 /\ pc = "done") =>
        /\ log.total = prev.total
        /\ SizesOf(files) = prev.sizes
        /\ NoTieAtCut => Range(files) = prev.top

\* C9 witness: a second scan with limit 1 over three yielded files, two of
\* them of equal size and both smaller than the one reported.
C9_Witness ==
    /\ run = 2
    /\ pc = "done"
    /\ limit = 1
    /\ Yielded(1) = 3
    /\ Len(files) = 1
    /\ NoTieAtCut
    /\ \E f, g \in Files \ Range(files) : f # g /\ size[f] = size[g]
    /\ Range(files) = prev.top

\* C10: in a walk that ran to its end, every entry of every directory that
\* was listed has been examined; an entry whose examination raised got one
\* warning naming it and contributed nothing (no file, no listing); a
\* directory whose listing raised got one warning, none of its entries was
\* examined, and the entries beside it were all examined; the files of the
\* healthy entries were yielded.
C10_ErrorsStayLocal ==
    \A w \in 1..2 : Exhausted(w) =>
        /\ \A d \in Dirs : (listed[w][d] = 1 /\ oserr[d] # "listerr") =>
              children(d) \subseteq examined[w]
        /\ \A c \in examined[w] : oserr[c] = "staterr" =>
              /\ warns[w][c] = 1
              /\ c \in Files => yields[w][c] = 0
              /\ c \in Dirs => listed[w][c] = 0
        /\ \A d \in Dirs : (listed[w][d] = 1 /\ oserr[d] = "listerr") =>
              /\ warns[w][d] = 1
              /\ children(d) \cap examined[w] = {}
              /\ d # "root" => children(parent(d)) \subseteq examined[w]
        /\ \A n \in Nodes : warns[w][n] <= 1
        /\ \A f \in Files : Reachable(f) => yields[w][f] = 1

\* C10 witness: examining f1 raised; it was warned about once and its
\* sibling f2 was still yielded, as was f3.
C10_Witness ==
    /\ pc = "done"
    /\ oserr["f1"] = "staterr"
    /\ warns[2]["f1"] = 1
    /\ yields[2]["f1"] = 0
    /\ yields[2]["f2"] = 1
    /\ yields[2]["f3"] = 1
=============================================================================
